---- MODULE Spec2Model ----
(***************************************************************************)
(* Backend registry of the signaling server                                *)
(* (src/src/signaling/backend_configuration.go) and validation of the      *)
(* messages of its clients (src/src/signaling/api_signaling.go).           *)
(*                                                                         *)
(* A string that is inspected character by character (a url, an item of    *)
(* the "allowed" setting) is a sequence of tokens: "/" is the path         *)
(* separator, "%" an invalid escape, " " white space, any other token a    *)
(* run of ordinary characters.  The scheme and authority of a url,         *)
(* "https://h1", form one token.  The empty string is <<>>.                *)
(***************************************************************************)
EXTENDS Integers, Sequences, FiniteSets, TLC

VARIABLES
    backends,       \* BackendConfiguration.backends: host -> sequence of Backend
    allowAll,       \* BackendConfiguration.allowAll
    commonSecret,   \* BackendConfiguration.commonSecret
    compatBackend,  \* BackendConfiguration.compatBackend (NilBackend: nil)
    panicked,       \* a runtime panic has ended the process
    last,           \* the most recent call, its arguments and what it returned
    rl,             \* the Reload in progress, where its steps interleave with lookups
    obs,            \* what the lookup that has just run next to a Reload saw
    cm,             \* the ClientMessage received (api_signaling.go)
    checked,        \* the most recent CheckValid: its receiver before the call, its result
    sm,             \* the ServerMessage to send (api_signaling.go)
    session,        \* the Session the message is sent to
    closeAfterSend  \* what CloseAfterSend returned for sm and session

vars ==
    <<backends, allowAll, commonSecret, compatBackend, panicked, last, rl, obs, cm, checked,
      sm, session, closeAfterSend>>

(***************************************************************************)
(* Bounds and input sets                                                   *)
(***************************************************************************)
\* longest "backends" setting, counted in comma separated items
MaxBackends == 2

Ids == {"b1", "b2", "b3"}
Blank == " "
HostNames == {"h1", "h2"}
Schemes == {"https", "http"}

Origin(scheme, host) == scheme \o "://" \o host

U_A   == <<"https://h1", "/", "a", "/">>
U_AB  == <<"https://h1", "/", "a", "/", "b">>
U_B   == <<"https://h1", "/", "b", "/">>
U_H2  == <<"https://h2">>
U_BAD == <<"https://h1", "/", "%">>
U_AA  == <<"https://h1", "/", "a", "/", "/">>

Section(u, s) == [url |-> u, secret |-> s]

\* the per-backend sections of the configuration files the model loads
SectionsA ==
    [id \in Ids |-> CASE id = "b1" -> Section(U_A, "s1")
                      [] id = "b2" -> Section(U_AB, "s1")
                      [] OTHER     -> Section(U_H2, "s1")]

\* b1 has a new secret, the url of b2 does not parse, b3 has moved to h1
SectionsB ==
    [id \in Ids |-> CASE id = "b1" -> Section(U_A, "s2")
                      [] id = "b2" -> Section(U_BAD, "s1")
                      [] OTHER     -> Section(U_B, "s1")]

\* the url of b1 ends in two separators, b2 has no url, b3 no secret
SectionsC ==
    [id \in Ids |-> CASE id = "b1" -> Section(U_AA, "s1")
                      [] id = "b2" -> Section(<<>>, "s1")
                      [] OTHER     -> Section(U_H2, "")]

SectionTables == { SectionsA, SectionsB, SectionsC }

Injective(s) == \A i, j \in 1..Len(s) : s[i] = s[j] => i = j

\* values of the "backends" setting, split at the commas: up to MaxBackends
\* identifiers, or white space only
BackendsSettings ==
    { s \in UNION { [1..n -> Ids] : n \in 0..MaxBackends } : Injective(s) } \cup { <<Blank>> }

\* the [backend] keys other than "backends": allowall, secret, allowed
PlainMode   == [allowall |-> FALSE, secret |-> "cs", allowed |-> <<>>]
AllowAllMode == [allowall |-> TRUE, secret |-> "cs", allowed |-> <<>>]
LegacyMode  == [allowall |-> FALSE, secret |-> "cs",
                allowed |-> << <<"H1", "/", "x">>, <<" ", "h2">> >>]

\* settings a configuration is constructed from
InitModes ==
    { PlainMode, AllowAllMode, LegacyMode,
      [allowall |-> FALSE, secret |-> "",   allowed |-> << <<"h1">> >>],
      [allowall |-> FALSE, secret |-> "cs", allowed |-> << <<"/", "x">>, <<" ">> >>] }

\* settings of the snapshots handed to Reload
ReloadModes == { PlainMode, AllowAllMode, LegacyMode }

Config(m, b, t) ==
    [allowall |-> m.allowall, secret |-> m.secret, allowed |-> m.allowed,
     backends |-> b, sections |-> t]

InitConfigs ==
    { Config(m, b, t) : m \in InitModes, b \in BackendsSettings, t \in SectionTables }

\* the snapshots that also set allowall or allowed have the sections of
\* SectionsA and list at most one backend
ReloadConfigs ==
    { c \in { Config(m, b, t) : m \in ReloadModes, b \in BackendsSettings, t \in SectionTables } :
        c.allowall \/ c.allowed /= <<>> => c.sections = SectionsA /\ Len(c.backends) <= 1 }

NoConfig == Config(PlainMode, <<>>, [id \in {} |-> Section(<<>>, "")])

\* a *url.URL; nil is the null pointer
Url(scheme, host, path) == [nil |-> FALSE, Scheme |-> scheme, Host |-> host, Path |-> path]

NilUrl == [nil |-> TRUE, Scheme |-> "", Host |-> "", Path |-> <<>>]

\* the urls looked up
Urls ==
    { Url("https", "h1", p) :
        p \in { <<>>, <<"/", "a">>, <<"/", "a", "/">>, <<"/", "a", "/", "/">>,
                <<"/", "a", "/", "b">>, <<"/", "a", "/", "b", "/", "x">>, <<"/", "b", "/">> } }
    \cup { Url("https", "h2", <<>>), Url("https", "h2", <<"/", "a", "/">>),
           Url("http", "h1", <<"/", "a", "/">>) }

(***************************************************************************)
(* Backend values                                                          *)
(***************************************************************************)
Backend(id, u, secret, compat) == [id |-> id, url |-> u, secret |-> secret, compat |-> compat]

NilBackend == Backend("<nil>", <<>>, "", FALSE)

CompatBackend(secret) == Backend("compat", <<>>, secret, TRUE)

\* Backend.Secret, with "" for the nil byte slice
Secret(b) == b.secret

(***************************************************************************)
(* String helpers                                                          *)
(***************************************************************************)
EndsWithSlash(s) == Len(s) > 0 /\ s[Len(s)] = "/"

WithTrailingSlash(s) == IF EndsWithSlash(s) THEN s ELSE Append(s, "/")

HasPrefix(s, prefix) ==
    Len(prefix) <= Len(s) /\ SubSeq(s, 1, Len(prefix)) = prefix

\* url.Parse: an invalid escape is the parse error the model's urls can have
ParseFails(s) == \E i \in 1..Len(s) : s[i] = "%"

\* url.Parse(u).Host; "" when the url has no authority
ParsedHost(s) ==
    IF Len(s) > 0 /\ \E sch \in Schemes, h \in HostNames : s[1] = Origin(sch, h)
    THEN CHOOSE h \in HostNames : \E sch \in Schemes : s[1] = Origin(sch, h)
    ELSE ""

RECURSIVE TrimLeft(_)
TrimLeft(s) == IF Len(s) > 0 /\ s[1] = Blank THEN TrimLeft(Tail(s)) ELSE s

RECURSIVE TrimRight(_)
TrimRight(s) ==
    IF Len(s) > 0 /\ s[Len(s)] = Blank THEN TrimRight(SubSeq(s, 1, Len(s) - 1)) ELSE s

TrimSpace(s) == TrimRight(TrimLeft(s))

ToLower(c) == IF c = "H1" THEN "h1" ELSE IF c = "H2" THEN "h2" ELSE c

RemoveAt(s, i) == SubSeq(s, 1, i - 1) \o SubSeq(s, i + 1, Len(s))

\* index of the first element of s equal to e, 0 when there is none
IndexOf(s, e) ==
    IF \E i \in 1..Len(s) : s[i] = e
    THEN CHOOSE i \in 1..Len(s) : s[i] = e /\ \A j \in 1..(i - 1) : s[j] /= e
    ELSE 0

\* all orders in which a Go map with key set S can be ranged over
Orders(S) == { s \in [1..Cardinality(S) -> S] : Injective(s) }

MapSet(m, k, v) == [x \in DOMAIN m \cup {k} |-> IF x = k THEN v ELSE m[x]]

MapDelete(m, k) == [x \in DOMAIN m \ {k} |-> m[x]]

EmptyMap == [x \in {} |-> <<>>]

(***************************************************************************)
(* Loading a configuration                                                 *)
(***************************************************************************)
\* config.GetString("backend", "backends") != ""
HasBackendIds(config) == Len(config.backends) > 0

\* config.GetString("backend", "allowed") != ""
HasAllowedUrls(config) ==
    Len(config.allowed) > 1 \/ (Len(config.allowed) = 1 /\ Len(config.allowed[1]) > 0)

\* the keys of the map of identifiers: trimmed, the empty ones dropped
getConfiguredBackendIDs(config) ==
    IF HasBackendIds(config)
    THEN { config.backends[i] : i \in 1..Len(config.backends) } \ { Blank }
    ELSE {}

\* one pass of the loop over the identifiers, taken in the order `order`
RECURSIVE ConfiguredHostsFrom(_, _, _, _)
ConfiguredHostsFrom(config, order, i, hosts) ==
    IF i > Len(order) THEN hosts
    ELSE LET id     == order[i]
             raw    == config.sections[id].url
             u      == WithTrailingSlash(raw)
             secret == config.sections[id].secret
             host   == ParsedHost(u)
             sofar  == IF host \in DOMAIN hosts THEN hosts[host] ELSE <<>>
         IN  IF raw = <<>> \/ ParseFails(u) \/ secret = ""
             THEN ConfiguredHostsFrom(config, order, i + 1, hosts)
             ELSE ConfiguredHostsFrom(config, order, i + 1,
                      MapSet(hosts, host, Append(sofar, Backend(id, u, secret, FALSE))))

\* the mappings getConfiguredHosts can return: it ranges over a map of
\* identifiers, so every order of the identifiers is possible
getConfiguredHosts(config) ==
    { ConfiguredHostsFrom(config, order, 1, EmptyMap) :
        order \in Orders(getConfiguredBackendIDs(config)) }

\* the keys of allowMap built from the "allowed" setting
AllowedHosts(config) ==
    LET Stripped(item) ==
            LET u   == TrimSpace(item)
                idx == IndexOf(u, "/")
            IN  IF idx /= 0 THEN SubSeq(u, 1, idx - 1) ELSE u
    IN  { ToLower(Stripped(config.allowed[i])[1]) :
            i \in { j \in 1..Len(config.allowed) : Stripped(config.allowed[j]) /= <<>> } }

Registry(b, aa, secret, compat) ==
    [backends |-> b, allowAll |-> aa, commonSecret |-> secret, compatBackend |-> compat]

\* the registries NewBackendConfiguration can return for config
NewBackendConfiguration(config) ==
    IF config.allowall
    THEN { Registry(EmptyMap, TRUE, config.secret, CompatBackend(config.secret)) }
    ELSE IF HasBackendIds(config)
    THEN { Registry(hosts, FALSE, config.secret, NilBackend) :
             hosts \in getConfiguredHosts(config) }
    ELSE IF HasAllowedUrls(config) /\ AllowedHosts(config) /= {}
    THEN { Registry([h \in AllowedHosts(config) |-> <<CompatBackend(config.secret)>>],
                    FALSE, config.secret, CompatBackend(config.secret)) }
    ELSE { Registry(EmptyMap, FALSE, config.secret, NilBackend) }

(***************************************************************************)
(* Reload                                                                  *)
(***************************************************************************)
\* RemoveBackend that empties the entry instead of deleting the key
RemoveBackendKeepsKey(b, host) == MapSet(b, host, <<>>)

RemoveBackend(b, host) == MapDelete(b, host)

Outcome(b, p) == [backends |-> b, panicked |-> p]

\* The state of the loop of UpsertHost over the entries of the host.  The
\* range expression is evaluated once: n entries are visited, and an entry
\* is read from the backing array arr when its turn comes.  len is the
\* current length of b.backends[host], which shares the array; pending is
\* the local slice `backends`.
Loop(arr, len, pending, existingIndex, n) ==
    [arr |-> arr, len |-> len, pending |-> pending, existingIndex |-> existingIndex, n |-> n]

Iteration(b, p, lp) == [backends |-> b, panicked |-> p, loop |-> lp]

\* UpsertIteration without the removal of the entry found from `backends`
UpsertIterationKeepsFound(b, host, lp) ==
    LET existingBackend == lp.arr[lp.existingIndex + 1]
        index == IndexOf(lp.pending, existingBackend)
    IN  IF index /= 0
        THEN Iteration(b, FALSE, Loop(lp.arr, lp.len, lp.pending, lp.existingIndex + 1, lp.n))
        ELSE IF lp.existingIndex + 1 > lp.len
        THEN Iteration(b, TRUE, lp)
        ELSE LET shifted == SubSeq(lp.arr, 1, lp.existingIndex)
                              \o SubSeq(lp.arr, lp.existingIndex + 2, lp.len)
                              \o SubSeq(lp.arr, lp.len, lp.n)
             IN  Iteration(MapSet(b, host, SubSeq(shifted, 1, lp.len - 1)), FALSE,
                           Loop(shifted, lp.len - 1, lp.pending, lp.existingIndex + 1, lp.n))

\* UpsertIteration that keeps an entry the target no longer holds
UpsertIterationKeepsStale(b, host, lp) ==
    LET existingBackend == lp.arr[lp.existingIndex + 1]
        index == IndexOf(lp.pending, existingBackend)
    IN  IF index /= 0
        THEN Iteration(b, FALSE, Loop(lp.arr, lp.len, RemoveAt(lp.pending, index),
                                      lp.existingIndex + 1, lp.n))
        ELSE Iteration(b, FALSE, Loop(lp.arr, lp.len, lp.pending, lp.existingIndex + 1, lp.n))

\* one iteration of the loop
UpsertIteration(b, host, lp) ==
    LET existingBackend == lp.arr[lp.existingIndex + 1]
        index == IndexOf(lp.pending, existingBackend)
    IN  IF index /= 0
        THEN Iteration(b, FALSE, Loop(lp.arr, lp.len, RemoveAt(lp.pending, index),
                                      lp.existingIndex + 1, lp.n))
        ELSE IF lp.existingIndex + 1 > lp.len
        THEN \* b.backends[host][existingIndex+1:]: slice bounds out of range
             Iteration(b, TRUE, lp)
        ELSE LET shifted == SubSeq(lp.arr, 1, lp.existingIndex)
                              \o SubSeq(lp.arr, lp.existingIndex + 2, lp.len)
                              \o SubSeq(lp.arr, lp.len, lp.n)
             IN  Iteration(MapSet(b, host, SubSeq(shifted, 1, lp.len - 1)), FALSE,
                           Loop(shifted, lp.len - 1, lp.pending, lp.existingIndex + 1, lp.n))

\* the statement after the loop
UpsertAppend(b, host, lp) == MapSet(b, host, SubSeq(lp.arr, 1, lp.len) \o lp.pending)

RECURSIVE UpsertLoop(_, _, _)
UpsertLoop(b, host, lp) ==
    IF lp.existingIndex >= lp.n
    THEN Outcome(UpsertAppend(b, host, lp), FALSE)
    ELSE LET r == UpsertIteration(b, host, lp)
         IN  IF r.panicked THEN Outcome(r.backends, TRUE)
             ELSE UpsertLoop(r.backends, host, r.loop)

\* the loop state on entry to UpsertHost
UpsertEntry(b, host, newBackends) ==
    LET existing == IF host \in DOMAIN b THEN b[host] ELSE <<>>
    IN  Loop(existing, Len(existing), newBackends, 0, Len(existing))

UpsertHost(b, host, newBackends) == UpsertLoop(b, host, UpsertEntry(b, host, newBackends))

\* the first loop of Reload: the hosts in `stale` are no longer configured
RECURSIVE RemoveEach(_, _)
RemoveEach(b, stale) ==
    IF stale = {} THEN b
    ELSE LET hostname == CHOOSE h \in stale : TRUE
         IN  RemoveEach(RemoveBackend(b, hostname), stale \ {hostname})

RemoveUnconfigured(b, configuredHosts) == RemoveEach(b, DOMAIN b \ DOMAIN configuredHosts)

\* the second loop of Reload, over the configured hosts in the order `order`
RECURSIVE UpsertAll(_, _, _, _)
UpsertAll(b, configuredHosts, order, i) ==
    IF i > Len(order) THEN Outcome(b, FALSE)
    ELSE LET r == UpsertHost(b, order[i], configuredHosts[order[i]])
         IN  IF r.panicked THEN r
             ELSE UpsertAll(r.backends, configuredHosts, order, i + 1)

\* the outcomes Reload(config) can have on the mapping b
ReloadOutcomes(b, config) ==
    IF HasBackendIds(config)
    THEN UNION { { UpsertAll(RemoveUnconfigured(b, configuredHosts), configuredHosts, order, 1) :
                     order \in Orders(DOMAIN configuredHosts) } :
                 configuredHosts \in getConfiguredHosts(config) }
    ELSE { Outcome(b, FALSE) }

(***************************************************************************)
(* Lookups                                                                 *)
(***************************************************************************)
\* u.String()
UrlString(u) == <<Origin(u.Scheme, u.Host)>> \o u.Path

\* FirstMatch that keeps looking for a later match
RECURSIVE LastMatch(_, _, _)
LastMatch(entries, s, i) ==
    IF i > Len(entries) THEN NilBackend
    ELSE LET later == LastMatch(entries, s, i + 1)
         IN  IF later /= NilBackend THEN later
             ELSE IF entries[i].url = <<>> \/ HasPrefix(s, entries[i].url) THEN entries[i]
             ELSE NilBackend

\* the loop of GetBackend over the entries of the host, from entry i on
RECURSIVE FirstMatch(_, _, _)
FirstMatch(entries, s, i) ==
    IF i > Len(entries) THEN NilBackend
    ELSE IF entries[i].url = <<>> THEN entries[i]
    ELSE IF HasPrefix(s, entries[i].url) THEN entries[i]
    ELSE FirstMatch(entries, s, i + 1)

\* entries, found := b.backends[host]
View(found, entries) == [found |-> found, entries |-> entries]

ViewOf(b, host) == IF host \in DOMAIN b THEN View(TRUE, b[host]) ELSE View(FALSE, <<>>)

\* Lookup that compares the candidate as it is given
LookupAsGiven(view, u) ==
    IF ~view.found
    THEN IF allowAll THEN compatBackend ELSE NilBackend
    ELSE FirstMatch(view.entries, UrlString(u), 1)

\* GetBackend once it has read the entries of the host
Lookup(view, u) ==
    IF ~view.found
    THEN IF allowAll THEN compatBackend ELSE NilBackend
    ELSE FirstMatch(view.entries, WithTrailingSlash(UrlString(u)), 1)

\* GetBackend on a registry whose mapping is b
GetBackend(b, u) == Lookup(ViewOf(b, u.Host), u)

IsUrlAllowed(b, u) ==
    IF u.nil THEN FALSE ELSE GetBackend(b, u) /= NilBackend

\* GetSecret without the check for a nil url
GetSecretUnchecked(b, u) ==
    LET entry == GetBackend(b, u)
    IN  IF entry = NilBackend THEN "" ELSE entry.secret

GetSecret(b, u) ==
    IF u.nil THEN ""
    ELSE LET entry == GetBackend(b, u)
         IN  IF entry = NilBackend THEN "" ELSE entry.secret

(***************************************************************************)
(* Client messages (api_signaling.go).  A pointer field is a record with   *)
(* a flag `nil`; the url of the auth object and a json.RawMessage are      *)
(* token sequences.  The tokens of a JSON document are "{", "}", "[", "]"  *)
(* and one token per member of an object.                                  *)
(***************************************************************************)
HelloVersion == "1.0"

HelloClientTypeClient == "client"
HelloClientTypeInternal == "internal"

RecipientTypeSession == "session"
RecipientTypeUser == "user"
RecipientTypeRoom == "room"

\* an error value; NoError is the nil error
NoError == "<nil>"

\* a *json.RawMessage
RawMessage(tokens) == [nil |-> FALSE, raw |-> tokens]

NilRawMessage == [nil |-> TRUE, raw |-> <<>>]

ClientTypeInternalAuthParams(random, token) == [Random |-> random, Token |-> token]

HelloClientMessageAuth(type, params, u) ==
    [Type |-> type, Params |-> params, Url |-> u, parsedUrl |-> NilUrl,
     internalParams |-> ClientTypeInternalAuthParams("", "")]

HelloClientMessage(version, resumeId, auth) ==
    [nil |-> FALSE, Version |-> version, ResumeId |-> resumeId, Auth |-> auth]

NilHello ==
    [nil |-> TRUE, Version |-> "", ResumeId |-> "",
     Auth |-> HelloClientMessageAuth("", NilRawMessage, <<>>)]

ByeClientMessage == [nil |-> FALSE]

NilBye == [nil |-> TRUE]

RoomClientMessage(roomId) == [nil |-> FALSE, RoomId |-> roomId]

NilRoom == [nil |-> TRUE, RoomId |-> ""]

MessageClientMessageRecipient(type, sessionId, userId) ==
    [Type |-> type, SessionId |-> sessionId, UserId |-> userId]

MessageClientMessage(recipient, data) == [nil |-> FALSE, Recipient |-> recipient, Data |-> data]

NilMessage ==
    [nil |-> TRUE, Recipient |-> MessageClientMessageRecipient("", "", ""), Data |-> NilRawMessage]

\* ControlClientMessage embeds MessageClientMessage and has no field of its own
ControlClientMessage(recipient, data) == MessageClientMessage(recipient, data)

NilControl == NilMessage

ClientMessage(type, hello, bye, room, message, control) ==
    [Type |-> type, Hello |-> hello, Bye |-> bye, Room |-> room, Message |-> message,
     Control |-> control]

\* the result of a CheckValid: the error returned and the receiver as the
\* call leaves it
Checked(err, m) == [err |-> err, m |-> m]

\* url.Parse(s).Scheme for a url with an authority
ParsedScheme(s) ==
    CHOOSE sch \in Schemes : \E h \in HostNames : s[1] = Origin(sch, h)

\* url.ParseRequestURI: the url must be absolute or start with "/"
ParseRequestURI(s) ==
    IF s = <<>> THEN [err |-> "parse: empty url", url |-> NilUrl]
    ELSE IF ParseFails(s) THEN [err |-> "parse: invalid URL escape", url |-> NilUrl]
    ELSE IF s[1] = "/" THEN [err |-> NoError, url |-> Url("", "", s)]
    ELSE IF ParsedHost(s) /= ""
    THEN [err |-> NoError, url |-> Url(ParsedScheme(s), ParsedHost(s), Tail(s))]
    ELSE [err |-> "parse: invalid URI for request", url |-> NilUrl]

\* the members a JSON object of the model can have
JsonMembers == { "random:r1", "token:t1" }

MemberKey(member) == IF member = "random:r1" THEN "random" ELSE "token"

MemberValue(member) == IF member = "random:r1" THEN "r1" ELSE "t1"

\* the document is an object or an array, closed
JsonWellFormed(raw) ==
    /\ Len(raw) >= 2
    /\ \/ raw[1] = "{" /\ raw[Len(raw)] = "}"
       \/ raw[1] = "[" /\ raw[Len(raw)] = "]"
    /\ \A i \in 2..(Len(raw) - 1) : raw[i] \in JsonMembers

\* the value the object raw gives the field key, old when it has no such member
JsonField(raw, key, old) ==
    IF \E i \in 1..Len(raw) : raw[i] \in JsonMembers /\ MemberKey(raw[i]) = key
    THEN MemberValue(raw[CHOOSE i \in 1..Len(raw) :
                             raw[i] \in JsonMembers /\ MemberKey(raw[i]) = key])
    ELSE old

\* json.Unmarshal(raw, &into) for a ClientTypeInternalAuthParams
Unmarshal(raw, into) ==
    IF ~JsonWellFormed(raw)
    THEN [err |-> "unexpected end of JSON input", value |-> into]
    ELSE IF raw[1] = "["
    THEN [err |-> "json: cannot unmarshal array into Go value", value |-> into]
    ELSE [err |-> NoError,
          value |-> ClientTypeInternalAuthParams(JsonField(raw, "random", into.Random),
                                                 JsonField(raw, "token", into.Token))]

\* HelloClientMessage.CheckValid without the check of the version
HelloCheckValidAnyVersion(m) ==
    IF m.ResumeId /= "" THEN Checked(NoError, m)
    ELSE IF m.Auth.Params.nil \/ Len(m.Auth.Params.raw) = 0 THEN Checked("params missing", m)
    ELSE Checked(NoError, m)

\* HelloClientMessage.CheckValid that checks the auth object of a resumed
\* session as well
HelloCheckValidAuthOnResume(m) ==
    IF m.Version /= HelloVersion
    THEN Checked("unsupported hello version: " \o m.Version, m)
    ELSE IF m.Auth.Params.nil \/ Len(m.Auth.Params.raw) = 0 THEN Checked("params missing", m)
    ELSE Checked(NoError, [m EXCEPT !.Auth.Type = HelloClientTypeClient])

\* HelloClientMessage.CheckValid that takes an empty auth kind for "internal"
HelloCheckValidDefaultInternal(m) ==
    IF m.Version /= HelloVersion
    THEN Checked("unsupported hello version: " \o m.Version, m)
    ELSE IF m.ResumeId /= "" THEN Checked(NoError, m)
    ELSE IF m.Auth.Params.nil \/ Len(m.Auth.Params.raw) = 0 THEN Checked("params missing", m)
    ELSE LET m1 == [m EXCEPT !.Auth.Type =
                        IF m.Auth.Type = "" THEN HelloClientTypeInternal ELSE m.Auth.Type]
         IN  IF m1.Auth.Type = HelloClientTypeClient
             THEN IF m1.Auth.Url = <<>> THEN Checked("url missing", m1)
                  ELSE Checked(ParseRequestURI(m1.Auth.Url).err, m1)
             ELSE IF m1.Auth.Type = HelloClientTypeInternal
             THEN Checked(Unmarshal(m1.Auth.Params.raw, m1.Auth.internalParams).err, m1)
             ELSE Checked("unsupported auth type", m1)

\* HelloClientMessage.CheckValid
HelloCheckValid(m) ==
    IF m.Version /= HelloVersion
    THEN Checked("unsupported hello version: " \o m.Version, m)
    ELSE IF m.ResumeId /= "" THEN Checked(NoError, m)
    ELSE IF m.Auth.Params.nil \/ Len(m.Auth.Params.raw) = 0 THEN Checked("params missing", m)
    ELSE LET m1 == [m EXCEPT !.Auth.Type =
                        IF m.Auth.Type = "" THEN HelloClientTypeClient ELSE m.Auth.Type]
         IN  IF m1.Auth.Type = HelloClientTypeClient
             THEN IF m1.Auth.Url = <<>> THEN Checked("url missing", m1)
                  ELSE LET parsed == ParseRequestURI(m1.Auth.Url)
                       IN  IF parsed.err /= NoError THEN Checked(parsed.err, m1)
                           ELSE Checked(NoError, [m1 EXCEPT !.Auth.parsedUrl = parsed.url])
             ELSE IF m1.Auth.Type = HelloClientTypeInternal
             THEN LET decoded == Unmarshal(m1.Auth.Params.raw, m1.Auth.internalParams)
                  IN  IF decoded.err /= NoError THEN Checked(decoded.err, m1)
                      ELSE Checked(NoError, [m1 EXCEPT !.Auth.internalParams = decoded.value])
             ELSE Checked("unsupported auth type", m1)

\* ByeClientMessage.CheckValid
ByeCheckValid(m) == Checked(NoError, m)

\* RoomClientMessage.CheckValid
RoomCheckValid(m) == Checked(NoError, m)

\* MessageClientMessage.CheckValid that accepts every recipient kind
MessageCheckValidAnyRecipient(m) ==
    IF m.Data.nil \/ Len(m.Data.raw) = 0 THEN Checked("message empty", m)
    ELSE Checked(NoError, m)

\* MessageClientMessage.CheckValid
MessageCheckValid(m) ==
    IF m.Data.nil \/ Len(m.Data.raw) = 0 THEN Checked("message empty", m)
    ELSE IF m.Recipient.Type = RecipientTypeRoom THEN Checked(NoError, m)
    ELSE IF m.Recipient.Type = RecipientTypeSession
    THEN IF m.Recipient.SessionId = "" THEN Checked("session id missing", m)
         ELSE Checked(NoError, m)
    ELSE IF m.Recipient.Type = RecipientTypeUser
    THEN IF m.Recipient.UserId = "" THEN Checked("user id missing", m)
         ELSE Checked(NoError, m)
    ELSE Checked("unsupported recipient type " \o m.Recipient.Type, m)

\* ControlClientMessage.CheckValid: the method of the embedded MessageClientMessage
ControlCheckValid(m) == MessageCheckValid(m)

\* ClientMessage.CheckValid that takes the payload of a room message as optional
ClientCheckValidRoomOptional(m) ==
    IF m.Type = "" THEN Checked("type missing", m)
    ELSE IF m.Type = "hello"
    THEN IF m.Hello.nil THEN Checked("hello missing", m)
         ELSE LET r == HelloCheckValid(m.Hello)
              IN  Checked(r.err, [m EXCEPT !.Hello = r.m])
    ELSE IF m.Type = "message"
    THEN IF m.Message.nil THEN Checked("message missing", m)
         ELSE Checked(MessageCheckValid(m.Message).err, m)
    ELSE IF m.Type = "control"
    THEN IF m.Control.nil THEN Checked("control missing", m)
         ELSE Checked(ControlCheckValid(m.Control).err, m)
    ELSE Checked(NoError, m)

\* ClientMessage.CheckValid that rejects the types it does not know
ClientCheckValidKnownTypesOnly(m) ==
    IF m.Type = "" THEN Checked("type missing", m)
    ELSE IF m.Type = "hello"
    THEN IF m.Hello.nil THEN Checked("hello missing", m)
         ELSE LET r == HelloCheckValid(m.Hello)
              IN  Checked(r.err, [m EXCEPT !.Hello = r.m])
    ELSE IF m.Type = "bye" THEN Checked(NoError, m)
    ELSE IF m.Type = "room"
    THEN IF m.Room.nil THEN Checked("room missing", m)
         ELSE Checked(RoomCheckValid(m.Room).err, m)
    ELSE IF m.Type = "message"
    THEN IF m.Message.nil THEN Checked("message missing", m)
         ELSE Checked(MessageCheckValid(m.Message).err, m)
    ELSE IF m.Type = "control"
    THEN IF m.Control.nil THEN Checked("control missing", m)
         ELSE Checked(ControlCheckValid(m.Control).err, m)
    ELSE Checked("unsupported type", m)

\* ClientMessage.CheckValid
ClientCheckValid(m) ==
    IF m.Type = "" THEN Checked("type missing", m)
    ELSE IF m.Type = "hello"
    THEN IF m.Hello.nil THEN Checked("hello missing", m)
         ELSE LET r == HelloCheckValid(m.Hello)
              IN  Checked(r.err, [m EXCEPT !.Hello = r.m])
    ELSE IF m.Type = "bye" THEN Checked(NoError, m)
    ELSE IF m.Type = "room"
    THEN IF m.Room.nil THEN Checked("room missing", m)
         ELSE Checked(RoomCheckValid(m.Room).err, m)
    ELSE IF m.Type = "message"
    THEN IF m.Message.nil THEN Checked("message missing", m)
         ELSE Checked(MessageCheckValid(m.Message).err, m)
    ELSE IF m.Type = "control"
    THEN IF m.Control.nil THEN Checked("control missing", m)
         ELSE Checked(ControlCheckValid(m.Control).err, m)
    ELSE Checked(NoError, m)

(***************************************************************************)
(* The messages validated                                                  *)
(***************************************************************************)
Versions == { HelloVersion, "2.0", "" }
ResumeIds == { "", "r1" }
AuthTypes == { "", HelloClientTypeClient, HelloClientTypeInternal, "oauth" }

ParamsValues ==
    { NilRawMessage, RawMessage(<<>>), RawMessage(<<"{", "random:r1", "token:t1", "}">>),
      RawMessage(<<"[", "]">>), RawMessage(<<"{">>) }

\* no url, an absolute url, a host without a scheme, an invalid escape
AuthUrls == { <<>>, <<"https://h1", "/", "a">>, <<"h1">>, U_BAD }

Hellos ==
    { HelloClientMessage(v, r, HelloClientMessageAuth(t, p, u)) :
        v \in Versions, r \in ResumeIds, t \in AuthTypes, p \in ParamsValues, u \in AuthUrls }

ValidHello ==
    HelloClientMessage(HelloVersion, "",
        HelloClientMessageAuth("", RawMessage(<<"{", "}">>), <<"https://h1", "/", "a">>))

InvalidHello == HelloClientMessage("2.0", "", HelloClientMessageAuth("", NilRawMessage, <<>>))

RecipientTypes == { "", RecipientTypeRoom, RecipientTypeSession, RecipientTypeUser, "call" }

DataValues == { NilRawMessage, RawMessage(<<>>), RawMessage(<<"{", "}">>) }

Messages ==
    { MessageClientMessage(MessageClientMessageRecipient(t, s, u), d) :
        t \in RecipientTypes, s \in { "", "s1" }, u \in { "", "u1" }, d \in DataValues }

ValidMessage ==
    MessageClientMessage(MessageClientMessageRecipient(RecipientTypeRoom, "", ""),
                         RawMessage(<<"{", "}">>))

InvalidMessage ==
    MessageClientMessage(MessageClientMessageRecipient("call", "s1", "u1"), NilRawMessage)

Byes == { NilBye, ByeClientMessage }

Rooms == { NilRoom, RoomClientMessage("r1") }

\* the messages received: every hello payload, every message payload and
\* every control payload under its own type, and a few payloads under each
\* of the other types
ClientMessages ==
    { ClientMessage("hello", h, b, r, m, c) :
        h \in Hellos \cup { NilHello }, b \in Byes, r \in Rooms,
        m \in { NilMessage, ValidMessage }, c \in { NilControl, ValidMessage } }
    \cup { ClientMessage("message", h, b, r, m, c) :
        h \in { NilHello, ValidHello }, b \in Byes, r \in Rooms,
        m \in Messages \cup { NilMessage }, c \in { NilControl, ValidMessage } }
    \cup { ClientMessage("control", h, b, r, m, c) :
        h \in { NilHello, ValidHello }, b \in Byes, r \in Rooms,
        m \in { NilMessage, ValidMessage }, c \in Messages \cup { NilControl } }
    \cup { ClientMessage(t, h, b, r, m, c) :
        t \in { "", "bye", "room", "ping" },
        h \in { NilHello, ValidHello, InvalidHello }, b \in Byes, r \in Rooms,
        m \in { NilMessage, ValidMessage, InvalidMessage },
        c \in { NilControl, ValidMessage, InvalidMessage } }

NoClientMessage == ClientMessage("", NilHello, NilBye, NilRoom, NilMessage, NilControl)

\* a CheckValid call: the method, the message before the call, the error returned
CheckValidCall(op, before, err) == [op |-> op, before |-> before, err |-> err]

NotChecked == CheckValidCall("none", NoClientMessage, NoError)

(***************************************************************************)
(* Server messages (api_signaling.go)                                      *)
(***************************************************************************)
\* a *RoomEventServerMessage, of which CloseAfterSend reads RoomId
RoomEventServerMessage(roomId) == [nil |-> FALSE, RoomId |-> roomId]

NilRoomEvent == [nil |-> TRUE, RoomId |-> ""]

\* an *EventServerMessage
EventServerMessage(target, type, disinvite) ==
    [nil |-> FALSE, Target |-> target, Type |-> type, Disinvite |-> disinvite]

NilEvent == [nil |-> TRUE, Target |-> "", Type |-> "", Disinvite |-> NilRoomEvent]

ServerMessage(type, event) == [Type |-> type, Event |-> event]

\* what session.GetRoom() returns: a room with its Id(), or nil
SessionRoom(id) == [nil |-> FALSE, id |-> id]

NilSessionRoom == [nil |-> TRUE, id |-> ""]

\* a Session in the room `room`; NilSession is the nil interface value
Session(room) == [nil |-> FALSE, room |-> room]

NilSession == [nil |-> TRUE, room |-> NilSessionRoom]

\* CloseAfterSend that does not compare the room ids
CloseAfterSendAnyRoom(r, s) ==
    IF r.Type = "bye" THEN TRUE
    ELSE IF /\ r.Type = "event"
            /\ ~r.Event.nil /\ r.Event.Target = "roomlist" /\ r.Event.Type = "disinvite"
            /\ ~s.nil /\ ~r.Event.Disinvite.nil
            /\ ~s.room.nil
    THEN TRUE
    ELSE FALSE

\* ServerMessage.CloseAfterSend(session)
CloseAfterSend(r, s) ==
    IF r.Type = "bye" THEN TRUE
    ELSE IF /\ r.Type = "event"
            /\ ~r.Event.nil /\ r.Event.Target = "roomlist" /\ r.Event.Type = "disinvite"
            /\ ~s.nil /\ ~r.Event.Disinvite.nil
            /\ ~s.room.nil /\ r.Event.Disinvite.RoomId = s.room.id
    THEN TRUE
    ELSE FALSE

RoomIds == { "", "r1", "r2" }

Events ==
    { EventServerMessage(target, type, d) :
        target \in { "roomlist", "room", "participants" },
        type \in { "disinvite", "invite", "update" },
        d \in { NilRoomEvent } \cup { RoomEventServerMessage(id) : id \in RoomIds } }

\* the messages sent
ServerMessages ==
    { ServerMessage(type, event) :
        type \in { "", "error", "hello", "bye", "room", "message", "control", "event" },
        event \in Events \cup { NilEvent } }

\* the sessions a message is sent to
Sessions ==
    { NilSession, Session(NilSessionRoom) } \cup { Session(SessionRoom(id)) : id \in RoomIds }

NoServerMessage == ServerMessage("", NilEvent)

\* a call of CloseAfterSend and its result
Sent(called, result) == [called |-> called, result |-> result]

NotSent == Sent(FALSE, FALSE)

(***************************************************************************)
(* The registry as a state machine                                         *)
(***************************************************************************)
\* a call and what it returned.  hostsBefore: the hosts of the mapping when
\* Reload was called; repeat: Reload was handed the snapshot of the Reload
\* just before it
Call(op, config, hostsBefore, repeat, u, backend, allowed, secret) ==
    [op |-> op, config |-> config, hostsBefore |-> hostsBefore, repeat |-> repeat,
     u |-> u, backend |-> backend, allowed |-> allowed, secret |-> secret]

\* no Reload is in progress
IdleReload ==
    [pc |-> "idle", configuredHosts |-> EmptyMap, before |-> EmptyMap, todo |-> {},
     host |-> "", loop |-> Loop(<<>>, 0, <<>>, 0, 0)]

NoObs ==
    [valid |-> FALSE, u |-> NilUrl, seen |-> View(FALSE, <<>>), backend |-> NilBackend,
     pre |-> View(FALSE, <<>>), post |-> View(FALSE, <<>>)]

Init ==
    \E config \in InitConfigs : \E r \in NewBackendConfiguration(config) :
        /\ rl = IdleReload
        /\ obs = NoObs
        /\ cm = NoClientMessage
        /\ checked = NotChecked
        /\ sm = NoServerMessage
        /\ session = NilSession
        /\ closeAfterSend = NotSent
        /\ backends = r.backends
        /\ allowAll = r.allowAll
        /\ commonSecret = r.commonSecret
        /\ compatBackend = r.compatBackend
        /\ panicked = FALSE
        /\ last = Call("New", config, {}, FALSE, NilUrl, NilBackend, FALSE, "")

\* Reload that takes over the allow-all setting of the snapshot
ReloadAdoptsAllowAll(config) ==
    /\ ~panicked
    /\ \E r \in ReloadOutcomes(backends, config) :
          /\ backends' = r.backends
          /\ panicked' = r.panicked
    /\ last' = Call("Reload", config, DOMAIN backends,
                    last.op = "Reload" /\ last.config = config,
                    NilUrl, NilBackend, FALSE, "")
    /\ allowAll' = config.allowall
    /\ UNCHANGED <<sm, session, closeAfterSend, cm, checked, commonSecret, compatBackend, rl, obs>>

Reload(config) ==
    /\ ~panicked
    /\ \E r \in ReloadOutcomes(backends, config) :
          /\ backends' = r.backends
          /\ panicked' = r.panicked
    /\ last' = Call("Reload", config, DOMAIN backends,
                    last.op = "Reload" /\ last.config = config,
                    NilUrl, NilBackend, FALSE, "")
    /\ UNCHANGED <<sm, session, closeAfterSend, cm, checked, allowAll, commonSecret, compatBackend, rl, obs>>

GetBackendCall(u) ==
    /\ ~panicked
    /\ last' = Call("GetBackend", NoConfig, {}, FALSE, u, GetBackend(backends, u), FALSE, "")
    /\ UNCHANGED <<sm, session, closeAfterSend, cm, checked, backends, allowAll, commonSecret, compatBackend, panicked, rl, obs>>

IsUrlAllowedCall(u) ==
    /\ ~panicked
    /\ last' = Call("IsUrlAllowed", NoConfig, {}, FALSE, u, NilBackend,
                    IsUrlAllowed(backends, u), "")
    /\ UNCHANGED <<sm, session, closeAfterSend, cm, checked, backends, allowAll, commonSecret, compatBackend, panicked, rl, obs>>

GetSecretCall(u) ==
    /\ ~panicked
    /\ last' = Call("GetSecret", NoConfig, {}, FALSE, u, NilBackend, FALSE,
                    GetSecret(backends, u))
    /\ UNCHANGED <<sm, session, closeAfterSend, cm, checked, backends, allowAll, commonSecret, compatBackend, panicked, rl, obs>>

Next ==
    \/ \E config \in ReloadConfigs : Reload(config)
    \/ \E u \in Urls : GetBackendCall(u)
    \/ \E u \in Urls \cup {NilUrl} : IsUrlAllowedCall(u)
    \/ \E u \in Urls \cup {NilUrl} : GetSecretCall(u)

Spec == Init /\ [][Next]_vars

(***************************************************************************)
(* Reload next to lookups.  Nothing synchronises the two: Reload changes   *)
(* the mapping statement by statement and a GetBackend on another          *)
(* goroutine can run between any two of them.                              *)
(***************************************************************************)
\* the urls looked up while a Reload runs
ConcurrentUrls ==
    { Url("https", "h1", <<"/", "a", "/", "b", "/", "x">>), Url("https", "h1", <<"/", "b", "/">>),
      Url("https", "h2", <<>>) }

\* Reload is entered with a snapshot that lists backends (with any other
\* snapshot it returns at once) and has built configuredHosts
ReloadBegin(config) ==
    /\ ~panicked /\ rl.pc = "idle"
    /\ HasBackendIds(config)
    /\ \E configuredHosts \in getConfiguredHosts(config) :
          rl' = [pc |-> "remove", configuredHosts |-> configuredHosts, before |-> backends,
                 todo |-> DOMAIN configuredHosts, host |-> "", loop |-> IdleReload.loop]
    /\ last' = Call("Reload", config, DOMAIN backends,
                    last.op = "Reload" /\ last.config = config,
                    NilUrl, NilBackend, FALSE, "")
    /\ obs' = NoObs
    /\ UNCHANGED <<sm, session, closeAfterSend, cm, checked, backends, allowAll, commonSecret, compatBackend, panicked>>

\* one RemoveBackend of the first loop
ReloadRemove ==
    /\ ~panicked /\ rl.pc = "remove"
    /\ \E hostname \in DOMAIN backends \ DOMAIN rl.configuredHosts :
          backends' = RemoveBackend(backends, hostname)
    /\ obs' = NoObs
    /\ UNCHANGED <<sm, session, closeAfterSend, cm, checked, allowAll, commonSecret, compatBackend, panicked, last, rl>>

\* the first loop is over
ReloadRemoved ==
    /\ ~panicked /\ rl.pc = "remove"
    /\ DOMAIN backends \ DOMAIN rl.configuredHosts = {}
    /\ rl' = [rl EXCEPT !.pc = "upsert"]
    /\ obs' = NoObs
    /\ UNCHANGED <<sm, session, closeAfterSend, cm, checked, backends, allowAll, commonSecret, compatBackend, panicked, last>>

\* the second loop calls UpsertHost for a host not yet visited
UpsertBegin ==
    /\ ~panicked /\ rl.pc = "upsert"
    /\ \E hostname \in rl.todo :
          rl' = [rl EXCEPT !.pc = "loop", !.host = hostname,
                           !.loop = UpsertEntry(backends, hostname, rl.configuredHosts[hostname])]
    /\ obs' = NoObs
    /\ UNCHANGED <<sm, session, closeAfterSend, cm, checked, backends, allowAll, commonSecret, compatBackend, panicked, last>>

\* one iteration of the loop of UpsertHost
UpsertStep ==
    /\ ~panicked /\ rl.pc = "loop"
    /\ rl.loop.existingIndex < rl.loop.n
    /\ LET r == UpsertIteration(backends, rl.host, rl.loop)
       IN  /\ backends' = r.backends
           /\ panicked' = r.panicked
           /\ rl' = [rl EXCEPT !.loop = r.loop]
    /\ obs' = NoObs
    /\ UNCHANGED <<sm, session, closeAfterSend, cm, checked, allowAll, commonSecret, compatBackend, last>>

\* the append that ends UpsertHost
UpsertEnd ==
    /\ ~panicked /\ rl.pc = "loop"
    /\ rl.loop.existingIndex >= rl.loop.n
    /\ backends' = UpsertAppend(backends, rl.host, rl.loop)
    /\ rl' = [rl EXCEPT !.pc = "upsert", !.todo = rl.todo \ {rl.host}]
    /\ obs' = NoObs
    /\ UNCHANGED <<sm, session, closeAfterSend, cm, checked, allowAll, commonSecret, compatBackend, panicked, last>>

\* Reload returns
ReloadEnd ==
    /\ ~panicked /\ rl.pc = "upsert"
    /\ rl.todo = {}
    /\ rl' = IdleReload
    /\ obs' = NoObs
    /\ UNCHANGED <<sm, session, closeAfterSend, cm, checked, backends, allowAll, commonSecret, compatBackend, panicked, last>>

\* What an unsynchronised read of b.backends[host] can yield: the entry as it
\* stands, or, while UpsertHost works on that host, a slice header read
\* before a removal (its length) over the backing array as shifted since.
RaceViews(host) ==
    { ViewOf(backends, host) }
    \cup IF rl.pc = "loop" /\ rl.host = host /\ host \in DOMAIN backends
         THEN { View(TRUE, SubSeq(rl.loop.arr, 1, k)) : k \in rl.loop.len..rl.loop.n }
         ELSE {}

\* the sequence of the host once the Reload in progress has run, had it run alone
PostView(host) ==
    IF host \notin DOMAIN rl.configuredHosts THEN View(FALSE, <<>>)
    ELSE ViewOf(UpsertHost(RemoveUnconfigured(rl.before, rl.configuredHosts), host,
                           rl.configuredHosts[host]).backends, host)

\* a GetBackend on another goroutine
ConcurrentGetBackend(u) ==
    /\ ~panicked
    /\ \E seen \in RaceViews(u.Host) :
          obs' = [valid |-> rl.pc /= "idle", u |-> u, seen |-> seen, backend |-> Lookup(seen, u),
                  pre |-> ViewOf(rl.before, u.Host), post |-> PostView(u.Host)]
    /\ UNCHANGED <<sm, session, closeAfterSend, cm, checked, backends, allowAll, commonSecret, compatBackend, panicked, last, rl>>

\* the runtime detects a map read during a map write and ends the process
ConcurrentMapFault ==
    /\ ~panicked /\ rl.pc \in {"remove", "loop"}
    /\ panicked' = TRUE
    /\ obs' = NoObs
    /\ UNCHANGED <<sm, session, closeAfterSend, cm, checked, backends, allowAll, commonSecret, compatBackend, last, rl>>

NextConcurrent ==
    \/ \E config \in ReloadConfigs : ReloadBegin(config)
    \/ ReloadRemove
    \/ ReloadRemoved
    \/ UpsertBegin
    \/ UpsertStep
    \/ UpsertEnd
    \/ ReloadEnd
    \/ \E u \in ConcurrentUrls : ConcurrentGetBackend(u)
    \/ ConcurrentMapFault

SpecConcurrent == Init /\ [][NextConcurrent]_vars

(***************************************************************************)
(* Validation of the messages received                                     *)
(***************************************************************************)
InitMessages ==
    /\ backends = EmptyMap
    /\ allowAll = FALSE
    /\ commonSecret = ""
    /\ compatBackend = NilBackend
    /\ panicked = FALSE
    /\ last = Call("New", NoConfig, {}, FALSE, NilUrl, NilBackend, FALSE, "")
    /\ rl = IdleReload
    /\ obs = NoObs
    /\ cm \in ClientMessages
    /\ checked = NotChecked
    /\ sm = NoServerMessage
    /\ session = NilSession
    /\ closeAfterSend = NotSent

ClientMessageCheckValid ==
    /\ LET r == ClientCheckValid(cm)
       IN  /\ cm' = r.m
           /\ checked' = CheckValidCall("ClientMessage", cm, r.err)
    /\ UNCHANGED <<backends, allowAll, commonSecret, compatBackend, panicked, last, rl, obs>>
    /\ UNCHANGED <<sm, session, closeAfterSend>>

\* the payload methods are called on a payload that is present
HelloClientMessageCheckValid ==
    /\ ~cm.Hello.nil
    /\ LET r == HelloCheckValid(cm.Hello)
       IN  /\ cm' = [cm EXCEPT !.Hello = r.m]
           /\ checked' = CheckValidCall("Hello", cm, r.err)
    /\ UNCHANGED <<backends, allowAll, commonSecret, compatBackend, panicked, last, rl, obs>>
    /\ UNCHANGED <<sm, session, closeAfterSend>>

MessageClientMessageCheckValid ==
    /\ ~cm.Message.nil
    /\ LET r == MessageCheckValid(cm.Message)
       IN  /\ cm' = [cm EXCEPT !.Message = r.m]
           /\ checked' = CheckValidCall("Message", cm, r.err)
    /\ UNCHANGED <<backends, allowAll, commonSecret, compatBackend, panicked, last, rl, obs>>
    /\ UNCHANGED <<sm, session, closeAfterSend>>

ControlClientMessageCheckValid ==
    /\ ~cm.Control.nil
    /\ LET r == ControlCheckValid(cm.Control)
       IN  /\ cm' = [cm EXCEPT !.Control = r.m]
           /\ checked' = CheckValidCall("Control", cm, r.err)
    /\ UNCHANGED <<backends, allowAll, commonSecret, compatBackend, panicked, last, rl, obs>>
    /\ UNCHANGED <<sm, session, closeAfterSend>>

NextMessages ==
    \/ ClientMessageCheckValid
    \/ HelloClientMessageCheckValid
    \/ MessageClientMessageCheckValid
    \/ ControlClientMessageCheckValid

SpecMessages == InitMessages /\ [][NextMessages]_vars

(***************************************************************************)
(* Sending a server message                                                *)
(***************************************************************************)
InitServerMessages ==
    /\ backends = EmptyMap
    /\ allowAll = FALSE
    /\ commonSecret = ""
    /\ compatBackend = NilBackend
    /\ panicked = FALSE
    /\ last = Call("New", NoConfig, {}, FALSE, NilUrl, NilBackend, FALSE, "")
    /\ rl = IdleReload
    /\ obs = NoObs
    /\ cm = NoClientMessage
    /\ checked = NotChecked
    /\ sm \in ServerMessages
    /\ session \in Sessions
    /\ closeAfterSend = NotSent

CloseAfterSendCall ==
    /\ closeAfterSend' = Sent(TRUE, CloseAfterSend(sm, session))
    /\ UNCHANGED <<backends, allowAll, commonSecret, compatBackend, panicked, last, rl, obs,
                   cm, checked, sm, session>>

NextServerMessages == CloseAfterSendCall

SpecServerMessages == InitServerMessages /\ [][NextServerMessages]_vars

(***************************************************************************)
(* Properties                                                              *)
(***************************************************************************)
Count(s, e) == Cardinality({ i \in 1..Len(s) : s[i] = e })

\* s and t hold the same entries, each as often
SameContent(s, t) ==
    /\ Len(s) = Len(t)
    /\ \A i \in 1..Len(s) : Count(s, s[i]) = Count(t, s[i])

\* the hosts of the backends a snapshot configures
ConfiguredHostNames(config) == UNION { DOMAIN t : t \in getConfiguredHosts(config) }

\* what GetBackend returns for a host that is not in the mapping
Fallback == IF allowAll THEN compatBackend ELSE NilBackend

AfterReload == last.op = "Reload"

\* C1: a GetBackend that runs while a Reload is in progress sees, for its
\* host, the sequence the host had before the Reload or the one it has after
\* it, never another one.
C1_NoMixedGenerations ==
    obs.valid => obs.seen = obs.pre \/ obs.seen = obs.post

\* C2: after Reload with a snapshot that declares backends, every host of
\* the target mapping holds exactly the entries of the target, each once.
C2_FinalEqualsTarget ==
    AfterReload /\ HasBackendIds(last.config) =>
        \A t \in getConfiguredHosts(last.config) : \A h \in DOMAIN t :
            h \in DOMAIN backends /\ SameContent(backends[h], t[h])

\* C3: no Reload ends in a runtime failure.
C3_ReloadNeverPanics == ~panicked

\* C4: a Reload with the snapshot of the Reload just before it changes no
\* host's sequence (nothing dropped, nothing duplicated), does not fail, and
\* leaves the result of GetBackend as it was for every url.
C4_ReloadIdempotent ==
    [][ last'.op = "Reload" /\ last'.repeat =>
          /\ ~panicked'
          /\ backends' = backends
          /\ \A u \in Urls : GetBackend(backends', u) = GetBackend(backends, u) ]_vars

C4_Witness ==
    /\ AfterReload /\ last.repeat /\ ~panicked
    /\ HasBackendIds(last.config)
    /\ \E h \in DOMAIN backends : Len(backends[h]) >= 2

\* the hosts a snapshot names: those of its backends, or, when it lists no
\* backends, those of its "allowed" setting
DeclaredHostNames(config) ==
    IF HasBackendIds(config) THEN ConfiguredHostNames(config)
    ELSE IF HasAllowedUrls(config) THEN AllowedHosts(config)
    ELSE {}

NotFoundOn(h) == \A u \in Urls : u.Host = h => GetBackend(backends, u) = Fallback

\* C5 as claimed: after Reload with any snapshot, a host that was in the
\* mapping and is absent from the snapshot resolves to not-found (or to the
\* compat Backend under allow-all), also when the snapshot lists no backends.
C5_RemovedHostNotFound_AnySnapshot ==
    AfterReload /\ ~last.config.allowall =>
        \A h \in last.hostsBefore \ DeclaredHostNames(last.config) :
            h \notin DOMAIN backends /\ NotFoundOn(h)

\* C5 as amended: after Reload with a snapshot whose "backends" setting is
\* not empty, a host that was in the mapping and is the host of none of the
\* snapshot's backends is no key of the mapping and resolves to not-found
\* (or to the compat Backend under allow-all).
C5_RemovedHostNotFound ==
    AfterReload /\ HasBackendIds(last.config) =>
        \A h \in last.hostsBefore \ ConfiguredHostNames(last.config) :
            h \notin DOMAIN backends /\ NotFoundOn(h)

C5_Witness ==
    /\ AfterReload /\ HasBackendIds(last.config) /\ ~panicked
    /\ last.hostsBefore \ ConfiguredHostNames(last.config) /= {}
    /\ backends /= EmptyMap

\* C6: under allow-all GetBackend returns the compat Backend for every url.
C6_AllowAllAlwaysCompat ==
    last.op = "GetBackend" /\ allowAll => last.backend = compatBackend

\* the candidate url as GetBackend compares it
Candidate(u) == WithTrailingSlash(UrlString(u))

Matches(entry, s) == entry.url = <<>> \/ HasPrefix(s, entry.url)

\* C7: for a host of the mapping GetBackend returns the first entry, in
\* stored order, whose url is empty or a prefix of the candidate, and
\* not-found when no entry matches.
C7_FirstMatchWins ==
    last.op = "GetBackend" /\ last.u.Host \in DOMAIN backends =>
        LET entries == backends[last.u.Host]
            hits    == { i \in 1..Len(entries) : Matches(entries[i], Candidate(last.u)) }
        IN  IF hits = {} THEN last.backend = NilBackend
            ELSE \E i \in hits : /\ \A j \in hits : i <= j
                                  /\ last.backend = entries[i]

\* both entries of the host match the candidate, the longer url is stored
\* first and is the one returned
C7_Witness ==
    /\ last.op = "GetBackend" /\ last.u.Host \in DOMAIN backends
    /\ LET entries == backends[last.u.Host]
       IN  /\ Len(entries) = 2
           /\ Matches(entries[1], Candidate(last.u))
           /\ Matches(entries[2], Candidate(last.u))
           /\ Len(entries[1].url) > Len(entries[2].url)
           /\ last.backend = entries[1]

\* the entries of s are in the order in which the setting lists their ids
InListedOrder(s, setting) ==
    \A i, j \in 1..Len(s) : i < j => IndexOf(setting, s[i].id) < IndexOf(setting, s[j].id)

\* C8: after NewBackendConfiguration, and for a host that Reload adds, the
\* entries of a host are in the order of the "backends" setting.
C8_ConfigurationOrderPreserved ==
    /\ last.op = "New" /\ ~last.config.allowall /\ HasBackendIds(last.config) =>
           \A h \in DOMAIN backends : InListedOrder(backends[h], last.config.backends)
    /\ AfterReload /\ ~panicked /\ HasBackendIds(last.config) =>
           \A h \in DOMAIN backends \ last.hostsBefore :
               InListedOrder(backends[h], last.config.backends)

\* C9: Reload with a snapshot that sets allow-all or the legacy allow-list
\* leaves the mapping as it was, whatever else the snapshot carries.
C9_ReloadNoOpForCompatSnapshot ==
    [][ last'.op = "Reload" /\ (last'.config.allowall \/ HasAllowedUrls(last'.config)) =>
          backends' = backends ]_vars

\* C10: a nil url is rejected in every mode; for another url GetSecret is
\* the secret of the Backend GetBackend resolves, empty when there is none.
C10_NilUrlRejected ==
    /\ last.op = "GetSecret" =>
           IF last.u.nil THEN last.secret = ""
           ELSE LET entry == GetBackend(backends, last.u)
                IN  last.secret = IF entry = NilBackend THEN "" ELSE Secret(entry)
    /\ last.op = "IsUrlAllowed" /\ last.u.nil => last.allowed = FALSE

C10_Witness ==
    /\ last.op = "GetSecret" /\ last.u.nil
    /\ allowAll /\ Secret(compatBackend) /= ""
    /\ backends /= EmptyMap

\* C11: an entry with an empty url (the legacy host-only form) is the only
\* entry of its host's sequence, after construction in any mode and after
\* any Reloads.
C11_CompatEntryAlone ==
    \A h \in DOMAIN backends :
        (\E i \in 1..Len(backends[h]) : backends[h][i].url = <<>>) => Len(backends[h]) = 1

\* a registry built from the legacy allow-list whose host, after a Reload,
\* holds two explicit entries in place of the compat entry
C11_Witness ==
    /\ ~allowAll /\ compatBackend /= NilBackend
    /\ AfterReload /\ ~panicked /\ HasBackendIds(last.config)
    /\ \E h \in last.hostsBefore \cap DOMAIN backends :
          /\ Len(backends[h]) = 2
          /\ \A i \in 1..2 : backends[h][i].url /= <<>>

\* C12: in a registry not constructed with allow-all, every Backend that
\* GetBackend returns has a secret that is not empty.
C12_SecretNeverEmpty ==
    last.op = "GetBackend" /\ ~allowAll /\ last.backend /= NilBackend =>
        Secret(last.backend) /= ""

\* u with one "/" appended
Slashed(u) == [u EXCEPT !.Path = Append(u.Path, "/")]

\* C13 as claimed: every candidate url and the same url with one "/"
\* appended resolve to the same result, in every registry state.
C13_TrailingSlashIrrelevant_AnyCandidate ==
    last.op = "GetBackend" => last.backend = GetBackend(backends, Slashed(last.u))

\* C13 as amended: a candidate url that does not end in "/" and the same
\* url with one "/" appended resolve to the same result, in every registry
\* state.
C13_TrailingSlashIrrelevant ==
    last.op = "GetBackend" /\ ~EndsWithSlash(UrlString(last.u)) =>
        last.backend = GetBackend(backends, Slashed(last.u))

\* https://h1/a resolves to the entry registered as https://h1/a/
C13_Witness ==
    /\ last.op = "GetBackend" /\ last.u.Path = <<"/", "a">>
    /\ last.backend /= NilBackend /\ last.backend.url = U_A
    /\ GetBackend(backends, Slashed(last.u)) = last.backend

\* the section of id lacks its url or its secret
MissingUrlOrSecret(config, id) ==
    config.sections[id].url = <<>> \/ config.sections[id].secret = ""

\* the section of id has a url that parses and a secret
ValidSection(config, id) ==
    /\ ~MissingUrlOrSecret(config, id)
    /\ ~ParseFails(WithTrailingSlash(config.sections[id].url))

\* the Backend getConfiguredHosts builds for id
BackendOf(config, id) ==
    Backend(id, WithTrailingSlash(config.sections[id].url), config.sections[id].secret, FALSE)

\* the mapping has been loaded from the backends of last.config
LoadedFromBackends ==
    /\ HasBackendIds(last.config)
    /\ \/ last.op = "New" /\ ~last.config.allowall
       \/ AfterReload

\* C14: when a declared id lacks its url or its secret, at construction or
\* at Reload, that id has no entry, and every other declared id with a valid
\* url and a secret has its entry under the host of its url.
C14_ConfigErrorIsLocal ==
    /\ LoadedFromBackends
    /\ \E id \in getConfiguredBackendIDs(last.config) : MissingUrlOrSecret(last.config, id)
    => \A id \in getConfiguredBackendIDs(last.config) :
           IF ValidSection(last.config, id)
           THEN LET host == ParsedHost(BackendOf(last.config, id).url)
                IN  /\ host \in DOMAIN backends
                    /\ \E i \in 1..Len(backends[host]) :
                          backends[host][i] = BackendOf(last.config, id)
           ELSE \A h \in DOMAIN backends : \A i \in 1..Len(backends[h]) :
                    backends[h][i].id /= id

KnownTypes == { "hello", "bye", "room", "message", "control" }

\* ClientMessage.CheckValid has just run
ClientMessageChecked == checked.op = "ClientMessage"

\* the payload slot that matches the type of m is present and passes the
\* rules of its own CheckValid
PayloadValid(m) ==
    CASE m.Type = "hello"   -> ~m.Hello.nil /\ HelloCheckValid(m.Hello).err = NoError
      [] m.Type = "bye"     -> ~m.Bye.nil /\ ByeCheckValid(m.Bye).err = NoError
      [] m.Type = "room"    -> ~m.Room.nil /\ RoomCheckValid(m.Room).err = NoError
      [] m.Type = "message" -> ~m.Message.nil /\ MessageCheckValid(m.Message).err = NoError
      [] m.Type = "control" -> ~m.Control.nil /\ ControlCheckValid(m.Control).err = NoError
      [] OTHER              -> FALSE

\* C15 as claimed: for a ClientMessage of type hello, bye, room, message or
\* control, CheckValid succeeds exactly when the payload slot matching the
\* type is present and passes its own rules.
C15_PayloadRequired_EveryType ==
    ClientMessageChecked /\ checked.before.Type \in KnownTypes =>
        (checked.err = NoError <=> PayloadValid(checked.before))

\* C15 as amended: for a ClientMessage of type hello, room, message or
\* control, CheckValid succeeds exactly when the payload slot matching the
\* type is present and passes its own rules; a message of type bye is valid
\* with or without its payload.
C15_PayloadRequired ==
    /\ ClientMessageChecked /\ checked.before.Type \in KnownTypes \ { "bye" } =>
           (checked.err = NoError <=> PayloadValid(checked.before))
    /\ ClientMessageChecked /\ checked.before.Type = "bye" => checked.err = NoError

\* a message of type message without its payload is rejected although its
\* hello and control slots hold valid payloads
C15_Witness ==
    /\ ClientMessageChecked /\ checked.before.Type = "message"
    /\ checked.before.Message.nil
    /\ checked.before.Control = ValidMessage /\ checked.before.Hello = ValidHello
    /\ checked.err = "message missing"

\* C16: CheckValid rejects an empty type with "type missing" and accepts
\* every other type outside hello, bye, room, message, control without
\* looking at a payload slot: whatever the slots hold, and leaving them as
\* they are.
C16_UnknownTypeAccepted ==
    /\ ClientMessageChecked /\ checked.before.Type = "" => checked.err = "type missing"
    /\ ClientMessageChecked /\ checked.before.Type \notin KnownTypes \cup { "" } =>
           checked.err = NoError /\ cm = checked.before

C16_Witness ==
    /\ ClientMessageChecked /\ checked.before.Type = "ping"
    /\ checked.before.Hello = InvalidHello /\ checked.before.Message = InvalidMessage
    /\ checked.before.Room.nil
    /\ checked.err = NoError

\* HelloClientMessage.CheckValid has just run, called directly or by
\* ClientMessage.CheckValid
HelloChecked ==
    \/ checked.op = "Hello"
    \/ ClientMessageChecked /\ checked.before.Type = "hello" /\ ~checked.before.Hello.nil

\* C17: hello validation fails whenever the version is not "1.0", whatever
\* the resume id and the auth fields are.
C17_VersionMismatchFails ==
    HelloChecked /\ checked.before.Hello.Version /= HelloVersion => checked.err /= NoError

\* a wrong version is rejected although the message resumes a session
C17_Witness ==
    /\ checked.op = "Hello" /\ checked.before.Hello.Version = "2.0"
    /\ checked.before.Hello.ResumeId = "r1"
    /\ checked.err = "unsupported hello version: 2.0"

\* C18: with the supported version and a resume id that is not empty, hello
\* validation succeeds whatever the auth fields hold and leaves them as they
\* are.
C18_ResumeSkipsAuth ==
    /\ HelloChecked
    /\ checked.before.Hello.Version = HelloVersion
    /\ checked.before.Hello.ResumeId /= ""
    => /\ checked.err = NoError
       /\ cm.Hello = checked.before.Hello

\* resumed with an unsupported kind, no params and a url that does not parse
C18_Witness ==
    /\ HelloChecked
    /\ checked.before.Hello.Version = HelloVersion
    /\ checked.before.Hello.ResumeId = "r1"
    /\ checked.before.Hello.Auth.Type = "oauth"
    /\ checked.before.Hello.Auth.Params.nil
    /\ checked.before.Hello.Auth.Url = <<"h1">>
    /\ checked.err = NoError

\* m with the auth kind "client"
AsClient(m) == [m EXCEPT !.Auth.Type = HelloClientTypeClient]

OtherAuthType(m) ==
    m.Auth.Type \notin { "", HelloClientTypeClient, HelloClientTypeInternal }

\* C19 as claimed: without a resume id, a hello with an empty auth kind is
\* validated with the outcome of the same hello with kind "client", and a
\* hello with a kind other than empty, "client" and "internal" is rejected
\* with "unsupported auth type".
C19_AuthKindDefault_AnyHello ==
    HelloChecked /\ checked.before.Hello.ResumeId = "" =>
        /\ checked.before.Hello.Auth.Type = "" =>
               checked.err = HelloCheckValid(AsClient(checked.before.Hello)).err
        /\ OtherAuthType(checked.before.Hello) => checked.err = "unsupported auth type"

\* C19 as amended: without a resume id, a hello with an empty auth kind is
\* validated with the outcome of the same hello with kind "client"; a hello
\* with a kind other than empty, "client" and "internal" is rejected, with
\* "unsupported auth type" when its version is the supported one and its
\* params are present and not empty.
C19_AuthKindDefault ==
    HelloChecked /\ checked.before.Hello.ResumeId = "" =>
        /\ checked.before.Hello.Auth.Type = "" =>
               checked.err = HelloCheckValid(AsClient(checked.before.Hello)).err
        /\ OtherAuthType(checked.before.Hello) =>
               /\ checked.err /= NoError
               /\ /\ checked.before.Hello.Version = HelloVersion
                  /\ ~checked.before.Hello.Auth.Params.nil
                  /\ Len(checked.before.Hello.Auth.Params.raw) > 0
                  => checked.err = "unsupported auth type"

\* a hello without auth kind is checked as a client: its url is required
C19_Witness ==
    /\ checked.op = "Hello" /\ checked.before.Hello.ResumeId = ""
    /\ checked.before.Hello.Version = HelloVersion
    /\ checked.before.Hello.Auth.Type = ""
    /\ checked.before.Hello.Auth.Params = RawMessage(<<"{", "random:r1", "token:t1", "}">>)
    /\ checked.before.Hello.Auth.Url = <<>>
    /\ checked.err = "url missing"
    /\ cm.Hello.Auth.Type = HelloClientTypeClient

\* the rules of a message payload
RecipientRules(m) ==
    /\ ~m.Data.nil /\ Len(m.Data.raw) > 0
    /\ \/ m.Recipient.Type = "room"
       \/ m.Recipient.Type = "session" /\ m.Recipient.SessionId /= ""
       \/ m.Recipient.Type = "user" /\ m.Recipient.UserId /= ""

\* C20: CheckValid of a message payload succeeds exactly when the data is
\* present and not empty and the recipient is "room", "session" with a
\* session id or "user" with a user id; a control payload is validated by
\* the same rules.
C20_RecipientRules ==
    /\ checked.op = "Message" =>
           (checked.err = NoError <=> RecipientRules(checked.before.Message))
    /\ checked.op = "Control" =>
           /\ checked.err = NoError <=> RecipientRules(checked.before.Control)
           /\ checked.err = MessageCheckValid(checked.before.Control).err

\* a control payload for a session without session id is rejected although
\* it names a user
C20_Witness ==
    /\ checked.op = "Control"
    /\ checked.before.Control.Recipient.Type = "session"
    /\ checked.before.Control.Recipient.SessionId = ""
    /\ checked.before.Control.Recipient.UserId = "u1"
    /\ ~checked.before.Control.Data.nil /\ Len(checked.before.Control.Data.raw) > 0
    /\ checked.err = "session id missing"

\* what GetCompatBackend returns
GetCompatBackend == compatBackend

\* C22: a Reload, with any snapshot, leaves the allow-all flag, the common
\* secret and the compat Backend as they were, so that they stay what
\* NewBackendConfiguration made them.
C22_ReloadKeepsMode ==
    [][ last'.op = "Reload" =>
          /\ allowAll' = allowAll
          /\ commonSecret' = commonSecret
          /\ compatBackend' = compatBackend ]_vars

\* a registry built from the legacy allow-list that has been reloaded with
\* a snapshot that sets allow-all, another secret and a backend
C22_Witness ==
    /\ AfterReload /\ ~panicked
    /\ last.config.allowall /\ HasBackendIds(last.config)
    /\ last.config.secret /= commonSecret
    /\ ~allowAll
    /\ GetCompatBackend /= NilBackend /\ Secret(GetCompatBackend) = commonSecret
    /\ backends /= EmptyMap

\* the session is in the room the disinvite names
DisinvitedFromCurrentRoom ==
    /\ ~sm.Event.nil /\ sm.Event.Target = "roomlist" /\ sm.Event.Type = "disinvite"
    /\ ~sm.Event.Disinvite.nil
    /\ ~session.nil /\ ~session.room.nil
    /\ sm.Event.Disinvite.RoomId = session.room.id

\* C21: CloseAfterSend is true for a message of type bye and false for one
\* of type hello; for type event it is true exactly when the event is a
\* roomlist disinvite with its disinvite object, the session is not nil and
\* is in a room, and that room is the one the disinvite names; it is false
\* in every other case.
C21_CloseAfterSend ==
    closeAfterSend.called =>
        /\ sm.Type = "bye" => closeAfterSend.result
        /\ sm.Type = "hello" => ~closeAfterSend.result
        /\ sm.Type = "event" => (closeAfterSend.result <=> DisinvitedFromCurrentRoom)
        /\ sm.Type \notin { "bye", "event" } => ~closeAfterSend.result

\* a disinvite from room r1 sent to a session that is in r1
C21_Witness ==
    /\ closeAfterSend.called /\ closeAfterSend.result
    /\ sm.Type = "event" /\ DisinvitedFromCurrentRoom
    /\ session.room.id = "r1"

====
